---- MODULE Spec2Model ----
(***************************************************************************)
(* Model of the query state reducer `queries` (src/src/index.ts) of        *)
(* apollo-client, driven by the stream of lifecycle actions that the       *)
(* client dispatches: QUERY_INIT, FETCH_REQUEST, QUERY_RESULT,             *)
(* QUERY_ERROR, QUERY_RESULT_CLIENT, QUERY_STOP, STORE_RESET.              *)
(*                                                                         *)
(* Encoding of JavaScript values:                                          *)
(*   - an object is a function from its own keys to values; a key whose    *)
(*     value is `undefined` is a key that is not in the DOMAIN;            *)
(*   - a field that may hold `null` holds Null (the empty tuple) or        *)
(*     Box(v) (the one-element tuple <<v>>) for a non-null value v;        *)
(*   - the other fields hold their value directly.                         *)
(***************************************************************************)
EXTENDS Integers, Sequences, FiniteSets, TLC

\* ---------------------------------------------------------------- bounds
\* Largest request id the client hands out in a run.
MaxRequestId == 2

\* Largest length of the allow-list carried by STORE_RESET.
MaxResetLen == 1

\* Number of actions dispatched to the store in a run.
MaxActions == 6

\* Number of actions dispatched in a run that tracks the object heap.
MaxHeapActions == 4

\* Number of results written into the normalized store in a run.
MaxWrites == 1

\* Largest length of a list in a result tree.
MaxListLen == 2

\* Number of actions other than completions dispatched in a run that is
\* checked for progress.
MaxLiveActions == 3

\* Number of calls of operation() and query() in a run.
MaxOperations == 2

\* Number of times the function operation() returned is called.
MaxStopCalls == 2

\* ---------------------------------------------------------------- inputs
QueryIds == {"a", "b"}

\* The payloads of QUERY_INIT: the query document and options, with the
\* `variables` object, which lodash.isequal compares structurally.
InitPayloads ==
  { [queryString |-> "query A", query |-> "selA", fragmentMap |-> "fragsA",
     variables |-> [id |-> 1],
     pollInterval |-> 0, forceFetch |-> FALSE, returnPartialData |-> TRUE],
    [queryString |-> "query A", query |-> "selA", fragmentMap |-> "fragsA",
     variables |-> [id |-> 2],
     pollInterval |-> 0, forceFetch |-> FALSE, returnPartialData |-> TRUE],
    [queryString |-> "query B", query |-> "selB", fragmentMap |-> "fragsB",
     variables |-> [id |-> 1],
     pollInterval |-> 100, forceFetch |-> TRUE, returnPartialData |-> FALSE] }

\* GraphQL results: without `errors`, with an empty `errors`, with errors.
Results ==
  { [data |-> "data"],
    [data |-> "data", errors |-> <<>>],
    [data |-> "data", errors |-> <<"gqlError">>] }

\* Network errors carried by QUERY_ERROR.
NetworkErrors == {"timeout", "offline"}

\* Values read from the clock by `new Date()`.
Dates == {1000}

\* ---------------------------------------------------------------- values
Null == <<>>

Box(v) == <<v>>

EmptyObject == <<>>

RECURSIVE SeqsUpTo(_, _)
SeqsUpTo(S, n) ==
  IF n = 0 THEN {<<>>}
  ELSE LET shorter == SeqsUpTo(S, n - 1)
       IN  shorter \cup {Append(s, x) : s \in {t \in shorter : Len(t) = n - 1}, x \in S}

\* Redux stores created outside of the client: one holding the apollo
\* reducer under the default key, one under the key the selector function
\* reads, one without the apollo reducer.
ExternalStores ==
  [app    |-> [state |-> [apollo |-> [queries |-> EmptyObject]],
               middleware |-> FALSE],
   custom |-> [state |-> [myApollo |-> [queries |-> EmptyObject]],
               middleware |-> FALSE],
   bare   |-> [state |-> [todos |-> [queries |-> EmptyObject]],
               middleware |-> FALSE]]

\* ------------------------------------------------------------- variables
VARIABLES
  queryStore,     \* the QueryStore: query id -> QueryStoreValue
  dispatched,     \* number of actions dispatched so far
  lastAction,     \* the action most recently passed to the reducer
  idCounter,      \* the client's request id counter
  pending,        \* fetches fired whose completion has not been dispatched
  lastFired,      \* history: latest request id fired per query id (0: none)
  requestAtStop,  \* history: request in flight at the last QUERY_STOP (0: none)
  heap,           \* the JavaScript objects allocated so far, by address
  stateRef,       \* address of the object that is the current QueryStore
  store,          \* the NormalizedStore: store key -> store object
  written,        \* history: the (shape, result) pairs written, in order
  readOut,        \* the last read since the last write: Null or Box(read)
  quiet,          \* query ids for which no further fetch or init is issued
  client,         \* the ApolloClient: Null before construction, or Box(fields)
  calls,          \* the calls of operation() and query() made so far
  middlewareLog,  \* what the middleware did for the last action it was given
  lastCall,       \* the last call of a client method and how it ended
  stores          \* the Redux stores there are, by name

heapVars == <<heap, stateRef>>

storeVars == <<store, written, readOut>>

liveVars == <<quiet>>

clientVars == <<client, calls, middlewareLog, lastCall, stores>>

vars == <<queryStore, dispatched, lastAction, idCounter, pending, lastFired,
          requestAtStop, heapVars, storeVars, liveVars, clientVars>>

\* ------------------------------------------------------- lodash helpers
\* lodash.assign({}, target, source)
assign(target, source) ==
  [k \in DOMAIN target \cup DOMAIN source |->
     IF k \in DOMAIN source THEN source[k] ELSE target[k]]

\* lodash.isequal on the modelled values
isEqual(a, b) == a = b

\* newState[queryId] = value, on a copy of the state
setQuery(state, queryId, value) ==
  [k \in DOMAIN state \cup {queryId} |-> IF k = queryId THEN value ELSE state[k]]

\* previousState[queryId] is truthy
hasQuery(state, queryId) == queryId \in DOMAIN state

\* ----------------------------------------------------- action predicates
isQueryInitAction(action) == action.type = "QUERY_INIT"

isFetchRequestAction(action) == action.type = "FETCH_REQUEST"

isQueryResultAction(action) == action.type = "QUERY_RESULT"

isQueryErrorAction(action) == action.type = "QUERY_ERROR"

isQueryResultClientAction(action) == action.type = "QUERY_RESULT_CLIENT"

isQueryStopAction(action) == action.type = "QUERY_STOP"

isStoreResetAction(action) == action.type = "STORE_RESET"

\* result.errors && result.errors.length
graphQLResultHasError(result) ==
  "errors" \in DOMAIN result /\ Len(result.errors) > 0

\* Variant of isStaleRequest: the guard written with `<=`.
isStaleRequestOrEqual(requestId, query) ==
  IF "lastRequestId" \notin DOMAIN query THEN FALSE
  ELSE IF query.lastRequestId = Null THEN requestId <= 0
  ELSE requestId <= query.lastRequestId[1]

\* JavaScript `requestId < query.lastRequestId`: undefined converts to NaN
\* (every comparison is false), null converts to 0.
isStaleRequest(requestId, query) ==
  IF "lastRequestId" \notin DOMAIN query THEN FALSE
  ELSE IF query.lastRequestId = Null THEN requestId < 0
  ELSE requestId < query.lastRequestId[1]

\* ----------------------------------------------------------- the reducer
\* Variant of queryInit: a re-init keeps the request bookkeeping of the
\* entry it overwrites.
queryInitKeepsRequest(previousState, action) ==
  LET entry ==
        [queryString |-> action.queryString,
         query |-> action.query,
         variables |-> action.variables,
         loading |-> TRUE,
         stopped |-> FALSE,
         networkError |-> Null,
         graphQLErrors |-> Null,
         pollInterval |-> action.pollInterval,
         inFlight |-> FALSE,
         lastRequestTime |-> Null,
         forceFetch |-> action.forceFetch,
         returnPartialData |-> action.returnPartialData,
         lastRequestId |-> Null,
         fragmentMap |-> action.fragmentMap]
      kept == {"inFlight", "lastRequestId", "lastRequestTime"}
  IN  setQuery(previousState, action.queryId,
        IF hasQuery(previousState, action.queryId)
        THEN [k \in DOMAIN entry |->
                IF k \in kept /\ k \in DOMAIN previousState[action.queryId]
                THEN previousState[action.queryId][k] ELSE entry[k]]
        ELSE entry)

\* Variant of queryInit: the existing variables are kept as previousVariables
\* without comparing them with the action's.
queryInitNoCompare(previousState, action) ==
  LET previousQuery == previousState[action.queryId]
      assigned ==
        /\ action.storePreviousVariables
        /\ hasQuery(previousState, action.queryId)
      entry ==
        [queryString |-> action.queryString,
         query |-> action.query,
         variables |-> action.variables,
         loading |-> TRUE,
         stopped |-> FALSE,
         networkError |-> Null,
         graphQLErrors |-> Null,
         pollInterval |-> action.pollInterval,
         inFlight |-> FALSE,
         lastRequestTime |-> Null,
         forceFetch |-> action.forceFetch,
         returnPartialData |-> action.returnPartialData,
         lastRequestId |-> Null,
         fragmentMap |-> action.fragmentMap]
  IN  setQuery(previousState, action.queryId,
        IF assigned /\ "variables" \in DOMAIN previousQuery
        THEN assign(entry, [previousVariables |-> Box(previousQuery.variables)])
        ELSE entry)

queryInit(previousState, action) ==
  LET previousQuery == previousState[action.queryId]
      \* the inner `if`: the existing variables differ from the action's
      \* (an entry without `variables` holds undefined, equal to no object)
      variablesChanged ==
        ~ ("variables" \in DOMAIN previousQuery
             /\ isEqual(previousQuery.variables, action.variables))
      \* previousVariables = previousQuery.variables was executed
      assigned ==
        /\ action.storePreviousVariables
        /\ hasQuery(previousState, action.queryId)
        /\ variablesChanged
      entry ==
        [queryString |-> action.queryString,
         query |-> action.query,
         variables |-> action.variables,
         loading |-> TRUE,
         stopped |-> FALSE,
         networkError |-> Null,
         graphQLErrors |-> Null,
         pollInterval |-> action.pollInterval,
         inFlight |-> FALSE,
         lastRequestTime |-> Null,
         forceFetch |-> action.forceFetch,
         returnPartialData |-> action.returnPartialData,
         lastRequestId |-> Null,
         fragmentMap |-> action.fragmentMap]
  IN  setQuery(previousState, action.queryId,
        \* the assigned value is undefined when the entry has no `variables`
        IF assigned /\ "variables" \in DOMAIN previousQuery
        THEN assign(entry, [previousVariables |-> Box(previousQuery.variables)])
        ELSE entry)

\* Variant of fetchRequest: no check that the query id is known.
fetchRequestNoKnownCheck(previousState, action) ==
  setQuery(previousState, action.queryId,
    assign(IF hasQuery(previousState, action.queryId)
           THEN previousState[action.queryId] ELSE EmptyObject,
      [inFlight |-> TRUE,
       lastRequestId |-> Box(action.requestId),
       lastRequestTime |-> Box(action.now)]))

\* Variant of fetchRequest: the request time is not stamped.
fetchRequestNoTime(previousState, action) ==
  IF ~ hasQuery(previousState, action.queryId) THEN previousState
  ELSE setQuery(previousState, action.queryId,
         assign(previousState[action.queryId],
           [inFlight |-> TRUE,
            lastRequestId |-> Box(action.requestId)]))

\* Variant of fetchRequest: a fetch restarts a stopped query.
fetchRequestRestarts(previousState, action) ==
  IF ~ hasQuery(previousState, action.queryId) THEN previousState
  ELSE setQuery(previousState, action.queryId,
         assign(previousState[action.queryId],
           [inFlight |-> TRUE,
            stopped |-> FALSE,
            lastRequestId |-> Box(action.requestId),
            lastRequestTime |-> Box(action.now)]))

fetchRequest(previousState, action) ==
  IF ~ hasQuery(previousState, action.queryId) THEN previousState
  ELSE setQuery(previousState, action.queryId,
         assign(previousState[action.queryId],
           [inFlight |-> TRUE,
            lastRequestId |-> Box(action.requestId),
            lastRequestTime |-> Box(action.now)]))

\* Variant of queryResult: the entry stays in flight.
queryResultKeepsInFlight(previousState, action) ==
  IF ~ hasQuery(previousState, action.queryId) THEN previousState
  ELSE IF isStaleRequest(action.requestId, previousState[action.queryId])
  THEN previousState
  ELSE setQuery(previousState, action.queryId,
         assign(previousState[action.queryId],
           [loading |-> FALSE,
            networkError |-> Null,
            graphQLErrors |->
              IF graphQLResultHasError(action.result)
              THEN Box(action.result.errors) ELSE Null,
            previousVariables |-> Null]))

queryResult(previousState, action) ==
  IF ~ hasQuery(previousState, action.queryId) THEN previousState
  ELSE IF isStaleRequest(action.requestId, previousState[action.queryId])
  THEN previousState
  ELSE setQuery(previousState, action.queryId,
         assign(previousState[action.queryId],
           [loading |-> FALSE,
            inFlight |-> FALSE,
            networkError |-> Null,
            graphQLErrors |->
              IF graphQLResultHasError(action.result)
              THEN Box(action.result.errors) ELSE Null,
            previousVariables |-> Null]))

\* Variant of queryError: no check that the query id is known.
queryErrorNoKnownCheck(previousState, action) ==
  IF /\ hasQuery(previousState, action.queryId)
     /\ isStaleRequest(action.requestId, previousState[action.queryId])
  THEN previousState
  ELSE setQuery(previousState, action.queryId,
         assign(IF hasQuery(previousState, action.queryId)
                THEN previousState[action.queryId] ELSE EmptyObject,
           [loading |-> FALSE,
            inFlight |-> FALSE,
            networkError |-> Box(action.error)]))

\* Variant of queryError: an error leaves the entry in flight.
queryErrorKeepsInFlight(previousState, action) ==
  IF ~ hasQuery(previousState, action.queryId) THEN previousState
  ELSE IF isStaleRequest(action.requestId, previousState[action.queryId])
  THEN previousState
  ELSE setQuery(previousState, action.queryId,
         assign(previousState[action.queryId],
           [loading |-> FALSE,
            networkError |-> Box(action.error)]))

queryError(previousState, action) ==
  IF ~ hasQuery(previousState, action.queryId) THEN previousState
  ELSE IF isStaleRequest(action.requestId, previousState[action.queryId])
  THEN previousState
  ELSE setQuery(previousState, action.queryId,
         assign(previousState[action.queryId],
           [loading |-> FALSE,
            inFlight |-> FALSE,
            networkError |-> Box(action.error)]))

\* Variant of queryResultClient: it also ends the request in flight.
queryResultClientEndsRequest(previousState, action) ==
  IF ~ hasQuery(previousState, action.queryId) THEN previousState
  ELSE setQuery(previousState, action.queryId,
         assign(previousState[action.queryId],
           [loading |-> ~ action.complete,
            inFlight |-> FALSE,
            networkError |-> Null,
            previousVariables |-> Null]))

queryResultClient(previousState, action) ==
  IF ~ hasQuery(previousState, action.queryId) THEN previousState
  ELSE setQuery(previousState, action.queryId,
         assign(previousState[action.queryId],
           [loading |-> ~ action.complete,
            networkError |-> Null,
            previousVariables |-> Null]))

\* Variant of queryStop: the entry is removed.
queryStopRemoves(previousState, action) ==
  [k \in DOMAIN previousState \ {action.queryId} |-> previousState[k]]

queryStop(previousState, action) ==
  setQuery(previousState, action.queryId,
    assign(IF hasQuery(previousState, action.queryId)
           THEN previousState[action.queryId] ELSE EmptyObject,
      [loading |-> FALSE,
       stopped |-> TRUE]))

\* Variant of indexOfFound: the test written `indexOf(queryId) > 0`.
indexOfFoundPositive(observableQueryIds, queryId) ==
  \E i \in 2..Len(observableQueryIds) : observableQueryIds[i] = queryId

\* observableQueryIds.indexOf(queryId) > -1
indexOfFound(observableQueryIds, queryId) ==
  \E i \in 1..Len(observableQueryIds) : observableQueryIds[i] = queryId

resetQueryState(state, action) ==
  LET kept == {queryId \in DOMAIN state :
                 indexOfFound(action.observableQueryIds, queryId)}
  IN  [key \in kept |-> state[key]]

\* Variant of queries: an unrecognised action yields the default state {}.
queriesDefaultState(previousState, action) ==
  IF isQueryInitAction(action) THEN queryInit(previousState, action)
  ELSE IF isFetchRequestAction(action) THEN fetchRequest(previousState, action)
  ELSE IF isQueryResultAction(action) THEN queryResult(previousState, action)
  ELSE IF isQueryErrorAction(action) THEN queryError(previousState, action)
  ELSE IF isQueryResultClientAction(action) THEN queryResultClient(previousState, action)
  ELSE IF isQueryStopAction(action) THEN queryStop(previousState, action)
  ELSE IF isStoreResetAction(action) THEN resetQueryState(previousState, action)
  ELSE EmptyObject

queries(previousState, action) ==
  IF isQueryInitAction(action) THEN queryInit(previousState, action)
  ELSE IF isFetchRequestAction(action) THEN fetchRequest(previousState, action)
  ELSE IF isQueryResultAction(action) THEN queryResult(previousState, action)
  ELSE IF isQueryErrorAction(action) THEN queryError(previousState, action)
  ELSE IF isQueryResultClientAction(action) THEN queryResultClient(previousState, action)
  ELSE IF isQueryStopAction(action) THEN queryStop(previousState, action)
  ELSE IF isStoreResetAction(action) THEN resetQueryState(previousState, action)
  ELSE previousState

\* -------------------------------------------------------------- dispatch
\* One action goes through the reducer; the store holds the returned state.
dispatch(action) ==
  /\ dispatched < MaxActions
  /\ dispatched' = dispatched + 1
  /\ queryStore' = queries(queryStore, action)
  /\ lastAction' = action
  /\ UNCHANGED <<heapVars, storeVars, liveVars, clientVars>>

\* The request in flight for a query id according to its entry (0: none).
requestInFlight(state, queryId) ==
  IF /\ hasQuery(state, queryId)
     /\ "inFlight" \in DOMAIN state[queryId]
     /\ state[queryId].inFlight
     /\ "lastRequestId" \in DOMAIN state[queryId]
     /\ state[queryId].lastRequestId # Null
  THEN state[queryId].lastRequestId[1]
  ELSE 0

Init ==
  /\ queryStore = EmptyObject
  /\ dispatched = 0
  /\ lastAction = [type |-> "@@redux/INIT"]
  /\ idCounter = 0
  /\ pending = {}
  /\ lastFired = [q \in QueryIds |-> 0]
  /\ requestAtStop = [q \in QueryIds |-> 0]
  /\ heap = <<EmptyObject>>
  /\ stateRef = 1
  /\ store = EmptyObject
  /\ written = <<>>
  /\ readOut = Null
  /\ quiet = {}
  /\ client = Null
  /\ calls = <<>>
  /\ middlewareLog = <<>>
  /\ lastCall = [method |-> "none", threw |-> FALSE, store |-> ""]
  /\ stores = ExternalStores

QueryInit(queryId, storePreviousVariables, options) ==
  /\ dispatch([type |-> "QUERY_INIT",
               queryId |-> queryId,
               queryString |-> options.queryString,
               query |-> options.query,
               variables |-> options.variables,
               storePreviousVariables |-> storePreviousVariables,
               pollInterval |-> options.pollInterval,
               forceFetch |-> options.forceFetch,
               returnPartialData |-> options.returnPartialData,
               fragmentMap |-> options.fragmentMap])
  /\ requestAtStop' = [requestAtStop EXCEPT ![queryId] = 0]
  /\ UNCHANGED <<idCounter, pending, lastFired>>

\* A fetch takes the next request id, then dispatches FETCH_REQUEST; `now` is
\* what `new Date()` returns inside the reducer.
FetchRequest(queryId, now) ==
  /\ idCounter < MaxRequestId
  /\ idCounter' = idCounter + 1
  /\ dispatch([type |-> "FETCH_REQUEST",
               queryId |-> queryId,
               requestId |-> idCounter',
               now |-> now])
  /\ pending' = pending \cup {[queryId |-> queryId, requestId |-> idCounter']}
  /\ lastFired' = [lastFired EXCEPT ![queryId] = idCounter']
  /\ UNCHANGED requestAtStop

\* The transport resolves an outstanding fetch, in any order.
QueryResult(request, result) ==
  /\ request \in pending
  /\ dispatch([type |-> "QUERY_RESULT",
               queryId |-> request.queryId,
               requestId |-> request.requestId,
               result |-> result])
  /\ pending' = pending \ {request}
  /\ UNCHANGED <<idCounter, lastFired, requestAtStop>>

\* The transport rejects an outstanding fetch, in any order.
QueryError(request, error) ==
  /\ request \in pending
  /\ dispatch([type |-> "QUERY_ERROR",
               queryId |-> request.queryId,
               requestId |-> request.requestId,
               error |-> error])
  /\ pending' = pending \ {request}
  /\ UNCHANGED <<idCounter, lastFired, requestAtStop>>

QueryResultClient(queryId, complete) ==
  /\ dispatch([type |-> "QUERY_RESULT_CLIENT",
               queryId |-> queryId,
               complete |-> complete])
  /\ UNCHANGED <<idCounter, pending, lastFired, requestAtStop>>

QueryStop(queryId) ==
  /\ dispatch([type |-> "QUERY_STOP", queryId |-> queryId])
  /\ requestAtStop' =
       [requestAtStop EXCEPT ![queryId] = requestInFlight(queryStore, queryId)]
  /\ UNCHANGED <<idCounter, pending, lastFired>>

StoreReset(observableQueryIds) ==
  /\ dispatch([type |-> "STORE_RESET",
               observableQueryIds |-> observableQueryIds])
  /\ UNCHANGED <<idCounter, pending, lastFired, requestAtStop>>

\* Any action of another reducer (mutations, store writes).
OtherAction ==
  /\ dispatch([type |-> "MUTATION_INIT"])
  /\ UNCHANGED <<idCounter, pending, lastFired, requestAtStop>>

Next ==
  \/ \E queryId \in QueryIds, storePreviousVariables \in BOOLEAN,
        options \in InitPayloads :
       QueryInit(queryId, storePreviousVariables, options)
  \/ \E queryId \in QueryIds, now \in Dates : FetchRequest(queryId, now)
  \/ \E request \in pending, result \in Results : QueryResult(request, result)
  \/ \E request \in pending, error \in NetworkErrors : QueryError(request, error)
  \/ \E queryId \in QueryIds, complete \in BOOLEAN :
       QueryResultClient(queryId, complete)
  \/ \E queryId \in QueryIds : QueryStop(queryId)
  \/ \E observableQueryIds \in SeqsUpTo(QueryIds, MaxResetLen) :
       StoreReset(observableQueryIds)
  \/ OtherAction

Spec == Init /\ [][Next]_vars

\* ------------------------------------------------- the reducer on the heap
\* The same reducer with its objects kept by address: a QueryStore object
\* maps query ids to the addresses of entry objects. It shows which objects
\* each branch creates and which it writes.

\* `{}` or an object literal: a new object at the next address.
newObject(h, content) == Append(h, content)

\* lodash.assign(target, source): writes the source's keys into the target.
assignInto(h, target, source) ==
  [h EXCEPT ![target] = assign(h[target], source)]

\* The QueryStore value held at an address.
Deref(h, ref) == [q \in DOMAIN h[ref] |-> h[h[ref][q]]]

\* Variant of copyOnWrite: `const newState = previousState`, without the
\* copy into a new object.
copyOnWriteNoStateCopy(h, ref, queryId, content) ==
  LET h1 == newObject(h, EmptyObject)
      entry == Len(h1)
      h2 == assignInto(h1, entry, content)
  IN  [heap |-> assignInto(h2, ref, (queryId :> entry)), ref |-> ref]

\* const newState = assign({}, previousState);
\* newState[queryId] = assign({}, ...) or an object literal;
\* return newState
copyOnWrite(h, ref, queryId, content) ==
  LET h1 == newObject(h, EmptyObject)
      newState == Len(h1)
      h2 == assignInto(h1, newState, h[ref])
      h3 == newObject(h2, EmptyObject)
      entry == Len(h3)
      h4 == assignInto(h3, entry, content)
  IN  [heap |-> assignInto(h4, newState, (queryId :> entry)), ref |-> newState]

\* resetQueryState: reduce(..., {}) copies the kept keys, with the addresses
\* of their entries, into a new object.
resetOnHeap(h, ref, action) ==
  LET kept == {queryId \in DOMAIN h[ref] :
                 indexOfFound(action.observableQueryIds, queryId)}
      h1 == newObject(h, EmptyObject)
      newQueries == Len(h1)
  IN  [heap |-> assignInto(h1, newQueries, [key \in kept |-> h[ref][key]]),
       ref |-> newQueries]

\* queries(previousState, action) with previousState at address ref: the
\* heap and the address of the returned state.
queriesOnHeap(h, ref, action) ==
  LET previousState == Deref(h, ref)
      same == [heap |-> h, ref |-> ref]
      updated(newState) ==
        copyOnWrite(h, ref, action.queryId, newState[action.queryId])
  IN  IF isQueryInitAction(action)
      THEN updated(queryInit(previousState, action))
      ELSE IF isFetchRequestAction(action)
      THEN IF ~ hasQuery(previousState, action.queryId) THEN same
           ELSE updated(fetchRequest(previousState, action))
      ELSE IF isQueryResultAction(action)
      THEN IF ~ hasQuery(previousState, action.queryId) THEN same
           ELSE IF isStaleRequest(action.requestId, previousState[action.queryId])
           THEN same
           ELSE updated(queryResult(previousState, action))
      ELSE IF isQueryErrorAction(action)
      THEN IF ~ hasQuery(previousState, action.queryId) THEN same
           ELSE IF isStaleRequest(action.requestId, previousState[action.queryId])
           THEN same
           ELSE updated(queryError(previousState, action))
      ELSE IF isQueryResultClientAction(action)
      THEN IF ~ hasQuery(previousState, action.queryId) THEN same
           ELSE updated(queryResultClient(previousState, action))
      ELSE IF isQueryStopAction(action)
      THEN updated(queryStop(previousState, action))
      ELSE IF isStoreResetAction(action)
      THEN resetOnHeap(h, ref, action)
      ELSE same

\* The actions dispatched in the runs that track the heap.
HeapActions ==
  {[type |-> "QUERY_INIT", queryId |-> queryId,
    queryString |-> options.queryString, query |-> options.query,
    variables |-> options.variables,
    storePreviousVariables |-> TRUE,
    pollInterval |-> options.pollInterval, forceFetch |-> options.forceFetch,
    returnPartialData |-> options.returnPartialData,
    fragmentMap |-> options.fragmentMap] :
     queryId \in QueryIds, options \in InitPayloads}
  \cup {[type |-> "FETCH_REQUEST", queryId |-> queryId, requestId |-> requestId,
         now |-> now] : queryId \in QueryIds, requestId \in {1, 2}, now \in Dates}
  \cup {[type |-> "QUERY_RESULT", queryId |-> queryId, requestId |-> requestId,
         result |-> [data |-> "data"]] : queryId \in QueryIds, requestId \in {1, 2}}
  \cup {[type |-> "QUERY_ERROR", queryId |-> queryId, requestId |-> requestId,
         error |-> "timeout"] : queryId \in QueryIds, requestId \in {1, 2}}
  \cup {[type |-> "QUERY_RESULT_CLIENT", queryId |-> queryId,
         complete |-> complete] : queryId \in QueryIds, complete \in BOOLEAN}
  \cup {[type |-> "QUERY_STOP", queryId |-> queryId] : queryId \in QueryIds}
  \cup {[type |-> "STORE_RESET", observableQueryIds |-> ids] :
          ids \in {<<>>, <<"a">>, <<"b", "a">>}}
  \cup {[type |-> "MUTATION_INIT"]}

\* One action goes through the reducer; its objects are kept on the heap.
HeapDispatch(action) ==
  /\ dispatched < MaxHeapActions
  /\ dispatched' = dispatched + 1
  /\ LET returned == queriesOnHeap(heap, stateRef, action)
     IN  /\ heap' = returned.heap
         /\ stateRef' = returned.ref
  /\ queryStore' = queries(queryStore, action)
  /\ lastAction' = action
  /\ UNCHANGED <<idCounter, pending, lastFired, requestAtStop, storeVars,
                 liveVars, clientVars>>

HeapNext == \E action \in HeapActions : HeapDispatch(action)

SpecHeap == Init /\ [][HeapNext]_vars

\* ====================================================== normalized store
\* The store writer and reader are imported by the index (data/readFromStore,
\* data/writeToStore); the definitions below follow their documented design.

\* ------------------------------------------------------- tagged values
\* A scalar leaf of a result tree or of a store object.
Scalar(v) == [kind |-> "scalar", value |-> v]

\* A nested object of a result tree: response name -> value.
Object(fields) == [kind |-> "object", fields |-> fields]

\* A list, in a result tree (of values) or in the store (of scalars and
\* references).
List(items) == [kind |-> "list", items |-> items]

\* A reference: the tagged pointer a store object holds in place of a
\* nested object.
Reference(id, generated) == [kind |-> "id", id |-> id, generated |-> generated]

\* ------------------------------------------------------ query shapes
\* One field of a selection: the name it is returned under, its name, its
\* serialized arguments ("" for none), whether it is a list, and the
\* selection of its objects (empty for scalars).
Field(responseName, name, args, isList, selection) ==
  [responseName |-> responseName, name |-> name, args |-> args,
   isList |-> isList, selection |-> selection]

Leaf(name) == Field(name, name, "", FALSE, <<>>)

UserShape ==
  <<Field("user", "user", "", FALSE, <<Leaf("id"), Leaf("name")>>)>>

UserEmailShape ==
  <<Field("user", "user", "", FALSE,
          <<Leaf("id"), Leaf("name"), Leaf("email")>>)>>

ViewerShape ==
  <<Field("me", "viewer", "", FALSE,
          <<Leaf("name"),
            Field("tags", "tags", "", TRUE, <<>>),
            Field("bestFriend", "bestFriend", "", FALSE,
                  <<Leaf("id"), Leaf("name")>>)>>)>>

PairShape ==
  <<Field("first", "user", "{\"id\":\"1\"}", FALSE,
          <<Leaf("id"), Leaf("name")>>),
    Field("second", "user", "{\"id\":\"2\"}", FALSE,
          <<Leaf("id"), Leaf("name")>>)>>

FriendsShape ==
  <<Field("friends", "friends", "", TRUE, <<Leaf("id"), Leaf("name")>>)>>

Shapes == {UserShape, UserEmailShape, ViewerShape, PairShape, FriendsShape}

\* The scalars a server returns for a field name.
ScalarsOf(name) ==
  CASE name = "id"    -> {"1", "2"}
    [] name = "name"  -> {"Ann", "Bob"}
    [] name = "email" -> {"ann@example.com"}
    [] OTHER          -> {"x"}

\* The result trees that match a selection.
RECURSIVE ResultsOfFields(_, _)
ValuesOf(field) ==
  LET one == IF field.selection = <<>>
             THEN {Scalar(v) : v \in ScalarsOf(field.name)}
             ELSE {Object(r) :
                     r \in ResultsOfFields(field.selection,
                                           Len(field.selection))}
  IN  IF field.isList
      THEN {List(items) : items \in SeqsUpTo(one, MaxListLen)}
      ELSE one

ResultsOfFields(selection, n) ==
  IF n = 0 THEN {EmptyObject}
  ELSE {assign(r, selection[n].responseName :> v) :
          r \in ResultsOfFields(selection, n - 1),
          v \in ValuesOf(selection[n])}

ResultsOf(selection) == ResultsOfFields(selection, Len(selection))

\* ---------------------------------------------------- StoreKey resolver
RootStoreKey == "ROOT_QUERY"

storeFieldKeyNameOnly(fieldName, args) == fieldName

\* storeFieldKey(fieldName, args): the field name, followed by the
\* serialized arguments when there are any.
storeFieldKey(fieldName, args) ==
  IF args = "" THEN fieldName ELSE fieldName \o "(" \o args \o ")"

\* dataIdFromObject(result): the declared identifier of a raw result
\* object, prefixed; Null (undefined) when the object declares none.
dataIdFromObject(result) ==
  IF "id" \in DOMAIN result.fields /\ result.fields["id"].kind = "scalar"
  THEN Box("id:" \o result.fields["id"].value)
  ELSE Null

\* The generated id of the object under a field of a store object.
generatedId(parentKey, fieldKey) == parentKey \o "." \o fieldKey

\* --------------------------------------------------------- store writer
\* Writes one value under a field storage key of a store object, merging
\* with what the store object already holds.
setField(st, dataId, fieldKey, value) ==
  LET object == IF dataId \in DOMAIN st THEN st[dataId] ELSE EmptyObject
  IN  assign(st, dataId :> assign(object, fieldKey :> value))

RECURSIVE writeSelectionSetToStore(_, _, _, _, _)
RECURSIVE writeObjectToStore(_, _, _, _)
RECURSIVE writeItemsToStore(_, _, _, _, _)

\* Normalizes one object: its store key is the declared identifier, or
\* the generated id given; its fields are merged into its store object.
writeObjectToStore(value, generated, selection, st) ==
  LET declared == dataIdFromObject(value)
      dataId   == IF declared # Null THEN declared[1] ELSE generated
  IN  [store |-> writeSelectionSetToStore(value.fields, dataId, selection,
                                          1, st),
       value |-> Reference(dataId, declared = Null)]

\* Writes the items of a list from index i on; acc holds the store and the
\* stored items so far, in result order.
writeItemsToStore(items, listId, field, i, acc) ==
  IF i > Len(items) THEN acc
  ELSE LET item == items[i]
           done == IF item.kind = "object"
                   THEN writeObjectToStore(
                          item, generatedId(listId, ToString(i - 1)),
                          field.selection, acc.store)
                   ELSE [store |-> acc.store, value |-> item]
       IN  writeItemsToStore(items, listId, field, i + 1,
                             [store |-> done.store,
                              items |-> Append(acc.items, done.value)])

\* Writes one field of the result under dataId.
writeFieldToStore(value, dataId, field, st) ==
  LET fieldKey == storeFieldKey(field.name, field.args)
      childId  == generatedId(dataId, fieldKey)
  IN  CASE value.kind = "scalar" ->
             setField(st, dataId, fieldKey, value)
        [] value.kind = "list" ->
             LET done == writeItemsToStore(value.items, childId, field, 1,
                                           [store |-> st, items |-> <<>>])
             IN  setField(done.store, dataId, fieldKey, List(done.items))
        [] value.kind = "object" ->
             LET done == writeObjectToStore(value, childId, field.selection,
                                            st)
             IN  setField(done.store, dataId, fieldKey, done.value)

\* Walks the selection and the result in lock-step from field i on; a
\* field the result does not hold is not written.
writeSelectionSetToStore(result, dataId, selection, i, st) ==
  IF i > Len(selection) THEN st
  ELSE LET field == selection[i]
           next  == IF field.responseName \in DOMAIN result
                    THEN writeFieldToStore(result[field.responseName],
                                           dataId, field, st)
                    ELSE st
       IN  writeSelectionSetToStore(result, dataId, selection, i + 1, next)

writeResultToStore(result, selection, st) ==
  writeSelectionSetToStore(result, RootStoreKey, selection, 1, st)

\* --------------------------------------------------------- store reader
missingFieldAlwaysFails(returnPartialData, path) ==
  [kind |-> "MissingFieldError", path |-> path]

\* A field the store object does not hold: undefined in a partial read,
\* MissingFieldError naming the field path otherwise.
missingField(returnPartialData, path) ==
  IF returnPartialData
  THEN [kind |-> "undefined"]
  ELSE [kind |-> "MissingFieldError", path |-> path]

RECURSIVE readSelectionSetFromStore(_, _, _, _, _, _)
RECURSIVE readItemsFromStore(_, _, _, _, _, _)

\* Reads the object a reference points to.
readObjectFromStore(st, reference, selection, returnPartialData) ==
  LET read == readSelectionSetFromStore(
                st, reference.id, selection, returnPartialData, 1,
                [kind |-> "result", result |-> EmptyObject,
                 isMissing |-> FALSE])
  IN  IF read.kind = "MissingFieldError" THEN read
      ELSE [kind |-> "value", value |-> Object(read.result),
            isMissing |-> read.isMissing]

\* Reads the items of a stored list from index i on, each independently.
readItemsFromStore(st, items, field, returnPartialData, i, acc) ==
  IF i > Len(items) \/ acc.kind = "MissingFieldError" THEN acc
  ELSE LET item == items[i]
           read == IF item.kind = "id"
                   THEN readObjectFromStore(st, item, field.selection,
                                            returnPartialData)
                   ELSE [kind |-> "value", value |-> item,
                         isMissing |-> FALSE]
       IN  readItemsFromStore(
             st, items, field, returnPartialData, i + 1,
             IF read.kind = "MissingFieldError" THEN read
             ELSE [kind |-> "value",
                   value |-> List(Append(acc.value.items, read.value)),
                   isMissing |-> acc.isMissing \/ read.isMissing])

\* Reads one field of the store object addressed by dataId.
readFieldFromStore(st, dataId, field, returnPartialData) ==
  LET fieldKey == storeFieldKey(field.name, field.args)
  IN  IF dataId \notin DOMAIN st \/ fieldKey \notin DOMAIN st[dataId]
      THEN missingField(returnPartialData, generatedId(dataId, fieldKey))
      ELSE LET stored == st[dataId][fieldKey]
           IN  CASE stored.kind = "scalar" ->
                      [kind |-> "value", value |-> stored,
                       isMissing |-> FALSE]
                 [] stored.kind = "id" ->
                      readObjectFromStore(st, stored, field.selection,
                                          returnPartialData)
                 [] stored.kind = "list" ->
                      readItemsFromStore(
                        st, stored.items, field, returnPartialData, 1,
                        [kind |-> "value", value |-> List(<<>>),
                         isMissing |-> FALSE])

\* Walks the selection from field i on; acc holds the result so far, keyed
\* by response name. An undefined field is left out of the result.
readSelectionSetFromStore(st, dataId, selection, returnPartialData, i, acc) ==
  IF i > Len(selection) \/ acc.kind = "MissingFieldError" THEN acc
  ELSE LET field == selection[i]
           read  == readFieldFromStore(st, dataId, field, returnPartialData)
       IN  readSelectionSetFromStore(
             st, dataId, selection, returnPartialData, i + 1,
             CASE read.kind = "MissingFieldError" -> read
               [] read.kind = "undefined" ->
                    [acc EXCEPT !.isMissing = TRUE]
               [] read.kind = "value" ->
                    [kind |-> "result",
                     result |-> assign(acc.result,
                                       field.responseName :> read.value),
                     isMissing |-> acc.isMissing \/ read.isMissing])

readQueryFromStore(st, rootId, selection, returnPartialData) ==
  readSelectionSetFromStore(
    st, rootId, selection, returnPartialData, 1,
    [kind |-> "result", result |-> EmptyObject, isMissing |-> FALSE])

\* ------------------------------------------------------- store actions
\* A result of a query is written into the store.
WriteResult(selection, result) ==
  /\ Len(written) < MaxWrites
  /\ store' = writeResultToStore(result, selection, store)
  /\ written' = Append(written, [selection |-> selection, result |-> result])
  /\ readOut' = Null
  /\ UNCHANGED <<queryStore, dispatched, lastAction, idCounter, pending,
                 lastFired, requestAtStop, heapVars, liveVars, clientVars>>

\* A query is read from the store; the store is left as it is.
ReadQuery(selection, returnPartialData) ==
  /\ readOut' = Box([selection |-> selection,
                     returnPartialData |-> returnPartialData,
                     outcome |-> readQueryFromStore(store, RootStoreKey,
                                                    selection,
                                                    returnPartialData)])
  /\ UNCHANGED <<store, written>>
  /\ UNCHANGED <<queryStore, dispatched, lastAction, idCounter, pending,
                 lastFired, requestAtStop, heapVars, liveVars, clientVars>>

StoreNext ==
  \/ \E selection \in Shapes : \E result \in ResultsOf(selection) :
       WriteResult(selection, result)
  \/ \E selection \in Shapes : \E returnPartialData \in BOOLEAN :
       ReadQuery(selection, returnPartialData)

SpecStore == Init /\ [][StoreNext]_vars

\* ============================================================== progress
\* The transport settles every request it was given: a completion is
\* dispatched for each outstanding fetch, whatever else was dispatched.
deliver(action, request) ==
  /\ request \in pending
  /\ queryStore' = queries(queryStore, action)
  /\ lastAction' = action
  /\ pending' = pending \ {request}
  /\ UNCHANGED <<dispatched, idCounter, lastFired, requestAtStop, heapVars,
                 storeVars, liveVars, clientVars>>

Deliver(request) ==
  \/ \E result \in Results :
       deliver([type |-> "QUERY_RESULT",
                queryId |-> request.queryId,
                requestId |-> request.requestId,
                result |-> result], request)
  \/ \E error \in NetworkErrors :
       deliver([type |-> "QUERY_ERROR",
                queryId |-> request.queryId,
                requestId |-> request.requestId,
                error |-> error], request)

\* From now on no FETCH_REQUEST and no QUERY_INIT is issued for queryId.
Quiesce(queryId) ==
  /\ queryId \notin quiet
  /\ quiet' = quiet \cup {queryId}
  /\ UNCHANGED <<queryStore, dispatched, lastAction, idCounter, pending,
                 lastFired, requestAtStop, heapVars, storeVars, clientVars>>

Requests == [queryId : QueryIds, requestId : 1..MaxRequestId]

\* The query a progress run initialises its entries with.
LivePayloads == {options \in InitPayloads : options.forceFetch}

LiveNext ==
  \/ /\ dispatched < MaxLiveActions
     /\ \/ \E queryId \in QueryIds \ quiet, options \in LivePayloads :
             QueryInit(queryId, TRUE, options)
        \/ \E queryId \in QueryIds \ quiet, now \in Dates :
             FetchRequest(queryId, now)
        \/ \E queryId \in QueryIds, complete \in BOOLEAN :
             QueryResultClient(queryId, complete)
        \/ \E queryId \in QueryIds : QueryStop(queryId)
        \/ \E observableQueryIds \in SeqsUpTo(QueryIds, MaxResetLen) :
             StoreReset(observableQueryIds)
  \/ \E request \in pending : Deliver(request)
  \/ \E queryId \in QueryIds : Quiesce(queryId)

SpecLive ==
  /\ Init
  /\ [][LiveNext]_vars
  /\ \A request \in Requests : WF_vars(Deliver(request))

\* ================================================================ client
\* The ApolloClient class: its store, its operations and its middleware.

\* ------------------------------------------------------------- inputs
\* What the constructor is given as reduxRootSelector: nothing, a key, or
\* a selector function (here: state => state.myApollo).
SelectorOptions ==
  { [kind |-> "undefined", key |-> ""],
    [kind |-> "string", key |-> "myApollo"],
    [kind |-> "function", key |-> "myApollo"] }

\* The options of operation() and query().
OperationOptions == {[query |-> "selA"]}

\* What the listener of an operation can be called with as its error.
ListenerErrors == {Null, Box("network down")}

OperationResult == [data |-> "it works"]

DEFAULT_REDUX_ROOT_KEY == "apollo"

\* The actions dispatched to a store that runs the client's middleware.
ClientActions ==
  {[type |-> "QUERY_STOP", queryId |-> "a"], [type |-> "MUTATION_INIT"]}

\* What the rest of the middleware chain returns for an action: the action
\* (plain dispatch), or whatever another middleware returns.
NextReturns == {"action", "promise"}

\* ------------------------------------------------------------ the class
\* constructor({reduxRootSelector}): the state of a new client.
constructor(reduxRootSelector) ==
  [store |-> Null,
   reduxRootSelector |-> IF reduxRootSelector.kind = "function"
                         THEN Box(reduxRootSelector.key)
                         ELSE Null,
   idCounter |-> 0,
   activeOperations |-> EmptyObject]

\* createApolloStore({reduxRootKey: DEFAULT_REDUX_ROOT_KEY, ...})
createApolloStore ==
  [state |-> (DEFAULT_REDUX_ROOT_KEY :> [queries |-> EmptyObject]),
   middleware |-> FALSE]

\* reduxRootSelector(store.getState()) is undefined.
selectsUndefined(c, storeState) ==
  LET key == IF c.reduxRootSelector # Null
             THEN c.reduxRootSelector[1]
             ELSE DEFAULT_REDUX_ROOT_KEY
  IN  key \notin DOMAIN storeState

setStoreUnchecked(c, st, name) ==
  [client |-> [c EXCEPT !.store = Box(name)], threw |-> FALSE]

\* setStore(store): throws when the selected state is undefined, else
\* keeps the store.
setStore(c, st, name) ==
  IF selectsUndefined(c, st[name].state)
  THEN [client |-> c, threw |-> TRUE]
  ELSE [client |-> [c EXCEPT !.store = Box(name)], threw |-> FALSE]

\* Variant of initStore: the selector is tested before the store.
initStoreSelectorFirst(c, st) ==
  IF c.reduxRootSelector # Null
  THEN [client |-> c, stores |-> st, threw |-> TRUE]
  ELSE IF c.store # Null
  THEN [client |-> c, stores |-> st, threw |-> FALSE]
  ELSE LET created == assign(st, "own" :> createApolloStore)
           set     == setStore(c, created, "own")
       IN  [client |-> set.client, stores |-> created, threw |-> set.threw]

\* initStore()
initStore(c, st) ==
  IF c.store # Null
  THEN [client |-> c, stores |-> st, threw |-> FALSE]
  ELSE IF c.reduxRootSelector # Null
  THEN [client |-> c, stores |-> st, threw |-> TRUE]
  ELSE LET created == assign(st, "own" :> createApolloStore)
           set     == setStore(c, created, "own")
       IN  [client |-> set.client, stores |-> created, threw |-> set.threw]

\* Variant of generateOperationId: the smallest id not in use is taken.
generateOperationIdReuse(c) ==
  [opId |-> CHOOSE n \in 0..c.idCounter :
              /\ n \notin DOMAIN c.activeOperations
              /\ \A m \in 0..(n - 1) : m \in DOMAIN c.activeOperations,
   client |-> [c EXCEPT !.idCounter = @ + 1]]

\* generateOperationId()
generateOperationId(c) ==
  [opId |-> c.idCounter,
   client |-> [c EXCEPT !.idCounter = @ + 1]]

\* startOperation(options)
startOperation(c, options) ==
  LET generated == generateOperationId(c)
  IN  [opId |-> generated.opId,
       client |-> [generated.client EXCEPT
                     !.activeOperations =
                        assign(@, generated.opId :> options)]]

\* Variant of stopOperation: every active operation is dropped.
stopOperationDropsAll(c, opId) ==
  [c EXCEPT !.activeOperations = EmptyObject]

\* stopOperation(opId): delete this.activeOperations[opId]
stopOperation(c, opId) ==
  [c EXCEPT !.activeOperations =
              [k \in DOMAIN @ \ {opId} |-> @[k]]]

\* operation(options): the store is initialised, the operation started and
\* the listener scheduled; what is returned stops the operation.
operation(c, st, options) ==
  LET init == initStore(c, st)
  IN  IF init.threw
      THEN [client |-> init.client, stores |-> init.stores, threw |-> TRUE,
            opId |-> Null, timer |-> "none"]
      ELSE LET started == startOperation(init.client, options)
           IN  [client |-> started.client, stores |-> init.stores,
                threw |-> FALSE, opId |-> Box(started.opId),
                timer |-> "pending"]

\* A call of operation() or query() as the model keeps it.
Call(kind, opId, timer, unsubscribe, promise, pc) ==
  [kind |-> kind, opId |-> opId, timer |-> timer,
   unsubscribe |-> unsubscribe, promise |-> promise, pc |-> pc,
   events |-> <<>>, stopCalls |-> 0]

\* The executor of the promise query() returns, up to the return of
\* operation(): `unsubscribe` still is the placeholder that throws.
queryExecutor(c, st, options) ==
  LET called == operation(c, st, options)
  IN  [client |-> called.client, stores |-> called.stores,
       threw |-> called.threw,
       call |-> IF called.threw
                THEN Call("query", Null, "none", "placeholder", "rejected",
                          "done")
                ELSE Call("query", called.opId, called.timer, "placeholder",
                          "pending", "assigning")]

\* Variant of queryListener: the promise is settled without unsubscribing.
queryListenerKeepsOperation(c, call, err, res) ==
  [client |-> c,
   call |-> [call EXCEPT
               !.timer = "fired",
               !.promise = IF err # Null THEN "rejected" ELSE "resolved",
               !.events = @ \o <<IF err # Null THEN "reject" ELSE "resolve">>]]

\* The listener query() passes to operation(): unsubscribe(), then reject
\* on an error, then resolve (which a settled promise ignores).
queryListener(c, call, err, res) ==
  IF call.unsubscribe = "placeholder"
  THEN [client |-> c,
        call |-> [call EXCEPT !.timer = "fired",
                              !.events = @ \o <<"No operation registered!">>]]
  ELSE [client |-> stopOperation(c, call.opId[1]),
        call |-> [call EXCEPT
                    !.timer = "fired",
                    !.promise = IF err # Null THEN "rejected" ELSE "resolved",
                    !.events = @ \o <<"unsubscribe",
                                      IF err # Null THEN "reject"
                                                    ELSE "resolve">>]]

\* Variant of middlewareChain: listeners are notified before the action is
\* passed on.
middlewareChainBroadcastFirst(c, storeState, key, action, nextReturn) ==
  LET after == [storeState EXCEPT
                  ![key].queries = queries(@, action)]
  IN  [state |-> after,
       events |-> <<[event |-> "broadcast", state |-> storeState,
                     opIds |-> DOMAIN c.activeOperations],
                    [event |-> "next", state |-> after,
                     opIds |-> {}]>>,
       nextReturned |-> nextReturn,
       returned |-> nextReturn]

\* The function the middleware wraps dispatch in: next(action), then
\* broadcastToQueryListeners(store.getState()), then next's value is
\* returned. `key` is where the store keeps the apollo reducer's state.
middlewareChain(c, storeState, key, action, nextReturn) ==
  LET after == [storeState EXCEPT
                  ![key].queries = queries(@, action)]
  IN  [state |-> after,
       events |-> <<[event |-> "next", state |-> after,
                     opIds |-> {}],
                    [event |-> "broadcast", state |-> after,
                     opIds |-> DOMAIN c.activeOperations]>>,
       nextReturned |-> nextReturn,
       returned |-> nextReturn]

\* -------------------------------------------------------- client actions
nonClientVars == <<queryStore, dispatched, lastAction, idCounter, pending,
                   lastFired, requestAtStop, heapVars, storeVars, liveVars>>

\* No call is on the stack: timers and further calls run only then.
Idle == \A i \in DOMAIN calls : calls[i].pc = "done"

\* new ApolloClient({reduxRootSelector})
Constructor(reduxRootSelector) ==
  /\ client = Null
  /\ client' = Box(constructor(reduxRootSelector))
  /\ lastCall' = [method |-> "constructor", threw |-> FALSE, store |-> ""]
  /\ UNCHANGED <<calls, middlewareLog, stores, nonClientVars>>

\* client.initStore()
InitStore ==
  /\ client # Null /\ Idle
  /\ LET init == initStore(client[1], stores)
     IN  /\ client' = Box(init.client)
         /\ stores' = init.stores
         /\ lastCall' = [method |-> "initStore", threw |-> init.threw, store |-> ""]
  /\ UNCHANGED <<calls, middlewareLog, nonClientVars>>

\* applyMiddleware(client.middleware()) on a store created outside: the
\* middleware takes the store with setStore.
ApplyMiddleware(name) ==
  /\ client # Null /\ Idle
  /\ name \in DOMAIN ExternalStores
  /\ LET set == setStore(client[1], stores, name)
     IN  /\ client' = Box(set.client)
         /\ stores' = IF set.threw THEN stores
                      ELSE [stores EXCEPT ![name].middleware = TRUE]
         /\ lastCall' = [method |-> "setStore", threw |-> set.threw, store |-> name]
  /\ UNCHANGED <<calls, middlewareLog, nonClientVars>>

\* client.operation(options)
Operation(options) ==
  /\ client # Null /\ Idle
  /\ Len(calls) < MaxOperations
  /\ LET called == operation(client[1], stores, options)
     IN  /\ client' = Box(called.client)
         /\ stores' = called.stores
         /\ calls' = Append(calls,
                            Call("operation", called.opId, called.timer,
                                 IF called.threw THEN "none" ELSE "real",
                                 "none", "done"))
         /\ lastCall' = [method |-> "operation", threw |-> called.threw, store |-> ""]
  /\ UNCHANGED <<middlewareLog, nonClientVars>>

\* client.query(options), up to the return of operation()
Query(options) ==
  /\ client # Null /\ Idle
  /\ Len(calls) < MaxOperations
  /\ LET executed == queryExecutor(client[1], stores, options)
     IN  /\ client' = Box(executed.client)
         /\ stores' = executed.stores
         /\ calls' = Append(calls, executed.call)
         /\ lastCall' = [method |-> "query", threw |-> executed.threw, store |-> ""]
  /\ UNCHANGED <<middlewareLog, nonClientVars>>

\* ... `unsubscribe = this.operation(operationOptions)` is assigned and
\* query() returns its promise.
QueryReturns(i) ==
  /\ calls[i].pc = "assigning"
  /\ calls' = [calls EXCEPT ![i].unsubscribe = "real", ![i].pc = "done"]
  /\ lastCall' = [method |-> "queryReturns", threw |-> FALSE, store |-> ""]
  /\ UNCHANGED <<client, stores, middlewareLog, nonClientVars>>

\* The timer operation() set fires: options.listener(null, {data}).
TimerFires(i) ==
  /\ Idle
  /\ calls[i].timer = "pending"
  /\ IF calls[i].kind = "query"
     THEN LET listened == queryListener(client[1], calls[i], Null,
                                        OperationResult)
          IN  /\ client' = Box(listened.client)
              /\ calls' = [calls EXCEPT ![i] = listened.call]
     ELSE /\ calls' = [calls EXCEPT ![i].timer = "fired",
                                    ![i].events = @ \o <<"listener">>]
          /\ UNCHANGED client
  /\ lastCall' = [method |-> "listener", threw |-> FALSE, store |-> ""]
  /\ UNCHANGED <<stores, middlewareLog, nonClientVars>>

\* The function operation() returned is called.
Stop(i) ==
  /\ Idle
  /\ calls[i].kind = "operation"
  /\ calls[i].opId # Null
  /\ calls[i].stopCalls < MaxStopCalls
  /\ client' = Box(stopOperation(client[1], calls[i].opId[1]))
  /\ calls' = [calls EXCEPT ![i].stopCalls = @ + 1]
  /\ lastCall' = [method |-> "stop", threw |-> FALSE, store |-> ""]
  /\ UNCHANGED <<stores, middlewareLog, nonClientVars>>

\* An action is dispatched to a store that runs the client's middleware.
MiddlewareDispatch(name, action, nextReturn) ==
  /\ client # Null /\ Idle
  /\ stores[name].middleware
  /\ LET key   == CHOOSE k \in DOMAIN stores[name].state : TRUE
         chain == middlewareChain(client[1], stores[name].state, key, action,
                                  nextReturn)
     IN  /\ stores' = [stores EXCEPT ![name].state = chain.state]
         /\ middlewareLog' = <<[store |-> name,
                                key |-> key,
                                action |-> action,
                                before |-> stores[name].state,
                                events |-> chain.events,
                                nextReturned |-> chain.nextReturned,
                                returned |-> chain.returned]>>
  /\ lastCall' = [method |-> "dispatch", threw |-> FALSE, store |-> ""]
  /\ UNCHANGED <<client, calls, nonClientVars>>

ClientNext ==
  \/ \E reduxRootSelector \in SelectorOptions : Constructor(reduxRootSelector)
  \/ InitStore
  \/ \E name \in DOMAIN ExternalStores : ApplyMiddleware(name)
  \/ \E options \in OperationOptions : Operation(options)
  \/ \E options \in OperationOptions : Query(options)
  \/ \E i \in DOMAIN calls : QueryReturns(i)
  \/ \E i \in DOMAIN calls : TimerFires(i)
  \/ \E i \in DOMAIN calls : Stop(i)

SpecClient == Init /\ [][ClientNext]_vars

\* The client as the middleware of a store that actions are dispatched to.
MiddlewareNext ==
  \/ \E reduxRootSelector \in SelectorOptions : Constructor(reduxRootSelector)
  \/ \E name \in DOMAIN ExternalStores : ApplyMiddleware(name)
  \/ \E options \in OperationOptions : Operation(options)
  \/ \E i \in DOMAIN calls : Stop(i)
  \/ \E name \in DOMAIN stores, action \in ClientActions,
        nextReturn \in NextReturns :
       MiddlewareDispatch(name, action, nextReturn)

SpecMiddleware == Init /\ [][MiddlewareNext]_vars

\* ================================================================ claims
\* The action of the step (every step of Next dispatches one action).
Act == lastAction'

IsCompletion(action) == action.type \in {"QUERY_RESULT", "QUERY_ERROR"}

\* The entry holds a request id (a number, neither null nor undefined).
HasRequestId(query) ==
  "lastRequestId" \in DOMAIN query /\ query.lastRequestId # Null

\* The completion answers a request older than the one stamped on the entry.
AnswersOlderRequest(action, query) ==
  HasRequestId(query) /\ action.requestId < query.lastRequestId[1]

\* Field k is the same in both objects (absent in both, or equal).
SameField(before, after, k) ==
  /\ (k \in DOMAIN before) <=> (k \in DOMAIN after)
  /\ k \in DOMAIN before => after[k] = before[k]

\* The errors a result carries, as the entry records them.
ErrorsOf(result) ==
  IF "errors" \in DOMAIN result /\ result.errors # <<>>
  THEN Box(result.errors) ELSE Null

\* ------------------------------------------------------------------- C1
\* C1 (as stated): a QUERY_RESULT or QUERY_ERROR answering a request older
\* than the latest request fired for its query id never changes the state.
C1_LastFiredWins ==
  [][(IsCompletion(Act) /\ Act.requestId < lastFired[Act.queryId])
       => queryStore' = queryStore]_vars

\* ------------------------------------------------------------------- C2
\* C2: for a known query id, a completion whose requestId is strictly less
\* than the entry's lastRequestId leaves the state unchanged; one whose
\* requestId equals lastRequestId is applied (the entry stops loading and is
\* no longer in flight, with the completion's error recorded).
C2_StalenessGuard ==
  [][(/\ IsCompletion(Act)
      /\ hasQuery(queryStore, Act.queryId)
      /\ HasRequestId(queryStore[Act.queryId]))
       => LET before == queryStore[Act.queryId]
              after == queryStore'[Act.queryId]
          IN  /\ Act.requestId < before.lastRequestId[1]
                   => queryStore' = queryStore
              /\ Act.requestId = before.lastRequestId[1]
                   => /\ after.loading = FALSE
                      /\ after.inFlight = FALSE
                      /\ after.networkError =
                           (IF Act.type = "QUERY_ERROR"
                            THEN Box(Act.error) ELSE Null)]_vars

\* A stale completion was dispatched and the entry is still in flight.
C2_Witness ==
  /\ IsCompletion(lastAction)
  /\ hasQuery(queryStore, lastAction.queryId)
  /\ AnswersOlderRequest(lastAction, queryStore[lastAction.queryId])
  /\ queryStore[lastAction.queryId].inFlight
  /\ queryStore[lastAction.queryId].loading

\* ------------------------------------------------------------------- C3
\* C3: an accepted QUERY_RESULT (known id, not stale) sets loading=false,
\* inFlight=false, networkError=null, previousVariables=null and graphQLErrors
\* to the result's errors when it carries some, to null otherwise.
C3_ResultApplied ==
  [][(/\ Act.type = "QUERY_RESULT"
      /\ hasQuery(queryStore, Act.queryId)
      /\ ~ AnswersOlderRequest(Act, queryStore[Act.queryId]))
       => /\ hasQuery(queryStore', Act.queryId)
          /\ LET after == queryStore'[Act.queryId]
             IN  /\ after.loading = FALSE
                 /\ after.inFlight = FALSE
                 /\ after.networkError = Null
                 /\ "previousVariables" \in DOMAIN after
                 /\ after.previousVariables = Null
                 /\ after.graphQLErrors = ErrorsOf(Act.result)]_vars

\* A result carrying GraphQL errors completed a query.
C3_Witness ==
  /\ lastAction.type = "QUERY_RESULT"
  /\ hasQuery(queryStore, lastAction.queryId)
  /\ ErrorsOf(lastAction.result) # Null
  /\ queryStore[lastAction.queryId].graphQLErrors = ErrorsOf(lastAction.result)
  /\ queryStore[lastAction.queryId].loading = FALSE
  /\ queryStore[lastAction.queryId].inFlight = FALSE

\* ------------------------------------------------------------------- C4
\* C4: an accepted QUERY_ERROR (known id, not stale) sets loading=false,
\* inFlight=false and networkError=action.error; a QUERY_ERROR for an unknown
\* query id changes nothing.
C4_ErrorApplied ==
  [][Act.type = "QUERY_ERROR"
       => IF hasQuery(queryStore, Act.queryId)
          THEN ~ AnswersOlderRequest(Act, queryStore[Act.queryId])
                 => /\ hasQuery(queryStore', Act.queryId)
                    /\ LET after == queryStore'[Act.queryId]
                       IN  /\ after.loading = FALSE
                           /\ after.inFlight = FALSE
                           /\ after.networkError = Box(Act.error)
          ELSE queryStore' = queryStore]_vars

\* A network error was recorded on a query that was in flight.
C4_Witness ==
  /\ lastAction.type = "QUERY_ERROR"
  /\ hasQuery(queryStore, lastAction.queryId)
  /\ queryStore[lastAction.queryId].networkError = Box(lastAction.error)
  /\ queryStore[lastAction.queryId].lastRequestId = Box(lastAction.requestId)
  /\ queryStore[lastAction.queryId].inFlight = FALSE

\* ------------------------------------------------------------------- C5
\* C5: QUERY_INIT inserts or overwrites the entry of action.queryId: after it
\* loading=true, stopped=false, inFlight=false, networkError and graphQLErrors
\* are null, and variables, pollInterval, forceFetch, returnPartialData and
\* fragmentMap are the action's.
C5_InitOverwrites ==
  [][Act.type = "QUERY_INIT"
       => /\ hasQuery(queryStore', Act.queryId)
          /\ LET after == queryStore'[Act.queryId]
             IN  /\ after.loading = TRUE
                 /\ after.stopped = FALSE
                 /\ after.inFlight = FALSE
                 /\ after.networkError = Null
                 /\ after.graphQLErrors = Null
                 /\ after.variables = Act.variables
                 /\ after.pollInterval = Act.pollInterval
                 /\ after.forceFetch = Act.forceFetch
                 /\ after.returnPartialData = Act.returnPartialData
                 /\ after.fragmentMap = Act.fragmentMap]_vars

\* A QUERY_INIT overwrote an entry (it kept that entry's variables) whose
\* request is still outstanding.
C5_Witness ==
  /\ lastAction.type = "QUERY_INIT"
  /\ hasQuery(queryStore, lastAction.queryId)
  /\ "previousVariables" \in DOMAIN queryStore[lastAction.queryId]
  /\ \E request \in pending : request.queryId = lastAction.queryId
  /\ queryStore[lastAction.queryId].inFlight = FALSE
  /\ queryStore[lastAction.queryId].loading = TRUE

\* ------------------------------------------------------------------- C6
\* C6: on QUERY_INIT, previousVariables is the existing entry's variables
\* exactly when storePreviousVariables is requested, an entry exists and its
\* variables are not equal to the action's; otherwise the new entry carries no
\* previousVariables. (An existing entry without variables has the value
\* undefined to hand over: the new entry carries no previousVariables.)
C6_PreviousVariables ==
  [][Act.type = "QUERY_INIT"
       => LET after == queryStore'[Act.queryId]
              existing == queryStore[Act.queryId]
              changed ==
                /\ Act.storePreviousVariables
                /\ hasQuery(queryStore, Act.queryId)
                /\ "variables" \in DOMAIN existing
                /\ existing.variables # Act.variables
          IN  IF changed
              THEN /\ "previousVariables" \in DOMAIN after
                   /\ after.previousVariables = Box(existing.variables)
              ELSE "previousVariables" \notin DOMAIN after]_vars

\* A re-init with other variables kept the old ones as previousVariables.
C6_Witness ==
  /\ lastAction.type = "QUERY_INIT"
  /\ lastAction.storePreviousVariables
  /\ hasQuery(queryStore, lastAction.queryId)
  /\ "previousVariables" \in DOMAIN queryStore[lastAction.queryId]
  /\ queryStore[lastAction.queryId].previousVariables # Null
  /\ queryStore[lastAction.queryId].previousVariables
       # Box(queryStore[lastAction.queryId].variables)

\* ------------------------------------------------------------------- C7
\* C7: FETCH_REQUEST for a query id without entry leaves the state unchanged;
\* for a known id it sets inFlight=true, lastRequestId=action.requestId and
\* lastRequestTime, and leaves loading, stopped, variables and the error
\* fields as they were.
C7_FetchRequest ==
  [][Act.type = "FETCH_REQUEST"
       => IF ~ hasQuery(queryStore, Act.queryId)
          THEN queryStore' = queryStore
          ELSE /\ hasQuery(queryStore', Act.queryId)
               /\ LET before == queryStore[Act.queryId]
                      after == queryStore'[Act.queryId]
                  IN  /\ after.inFlight = TRUE
                      /\ after.lastRequestId = Box(Act.requestId)
                      /\ after.lastRequestTime = Box(Act.now)
                      /\ \A k \in {"loading", "stopped", "variables",
                                   "networkError", "graphQLErrors"} :
                           SameField(before, after, k)]_vars

\* A fetch was stamped on an entry that holds an earlier network error.
C7_Witness ==
  /\ lastAction.type = "FETCH_REQUEST"
  /\ hasQuery(queryStore, lastAction.queryId)
  /\ queryStore[lastAction.queryId].inFlight = TRUE
  /\ queryStore[lastAction.queryId].lastRequestId = Box(lastAction.requestId)
  /\ "networkError" \in DOMAIN queryStore[lastAction.queryId]
  /\ queryStore[lastAction.queryId].networkError # Null

\* ------------------------------------------------------------------- C8
\* C8: QUERY_RESULT_CLIENT for a known query id sets loading to the negation
\* of action.complete and networkError and previousVariables to null, whatever
\* the entry's lastRequestId; inFlight, lastRequestId and stopped keep their
\* values.
C8_ResultClient ==
  [][(Act.type = "QUERY_RESULT_CLIENT" /\ hasQuery(queryStore, Act.queryId))
       => /\ hasQuery(queryStore', Act.queryId)
          /\ LET before == queryStore[Act.queryId]
                 after == queryStore'[Act.queryId]
             IN  /\ after.loading = ~ Act.complete
                 /\ after.networkError = Null
                 /\ "previousVariables" \in DOMAIN after
                 /\ after.previousVariables = Null
                 /\ \A k \in {"inFlight", "lastRequestId", "stopped"} :
                      SameField(before, after, k)]_vars

\* A client result was applied to an entry with a request in flight.
C8_Witness ==
  /\ lastAction.type = "QUERY_RESULT_CLIENT"
  /\ hasQuery(queryStore, lastAction.queryId)
  /\ HasRequestId(queryStore[lastAction.queryId])
  /\ queryStore[lastAction.queryId].inFlight = TRUE
  /\ queryStore[lastAction.queryId].loading = ~ lastAction.complete
  /\ lastAction.complete

\* ------------------------------------------------------------------- C9
\* C9: QUERY_STOP sets loading=false and stopped=true on the entry of
\* action.queryId and keeps the entry: the id is a key of the state afterwards
\* and lastRequestId, inFlight and variables are as before.
C9_StopRetains ==
  [][Act.type = "QUERY_STOP"
       => /\ hasQuery(queryStore', Act.queryId)
          /\ queryStore'[Act.queryId].loading = FALSE
          /\ queryStore'[Act.queryId].stopped = TRUE
          /\ hasQuery(queryStore, Act.queryId)
               => \A k \in {"lastRequestId", "inFlight", "variables"} :
                    SameField(queryStore[Act.queryId], queryStore'[Act.queryId], k)]_vars

\* A query was stopped while its request was in flight.
C9_Witness ==
  /\ lastAction.type = "QUERY_STOP"
  /\ hasQuery(queryStore, lastAction.queryId)
  /\ queryStore[lastAction.queryId].stopped = TRUE
  /\ queryStore[lastAction.queryId].loading = FALSE
  /\ requestAtStop[lastAction.queryId] # 0
  /\ queryStore[lastAction.queryId].inFlight = TRUE

\* ------------------------------------------------------------------ C10
\* The completion of the step answers the request that was in flight when
\* its query was stopped, and no QUERY_INIT has been applied since.
IsLateResponse ==
  /\ IsCompletion(Act)
  /\ requestAtStop[Act.queryId] # 0
  /\ Act.requestId = requestAtStop[Act.queryId]
  /\ hasQuery(queryStore, Act.queryId)

\* C10 (as stated): the late response to a stopped query leaves the query's
\* entry unchanged.
C10_LateResponseIgnored ==
  [][IsLateResponse => queryStore'[Act.queryId] = queryStore[Act.queryId]]_vars

\* C10 (what the reducer does instead): the late response to a stopped query
\* is handled as any other completion: discarded when a newer request was
\* stamped since, applied otherwise (loading=false, inFlight=false); in both
\* cases the entry stays stopped and keeps its lastRequestId and variables.
C10_LateResponseKeepsStopped ==
  [][IsLateResponse
       => /\ hasQuery(queryStore', Act.queryId)
          /\ LET before == queryStore[Act.queryId]
                 after == queryStore'[Act.queryId]
             IN  /\ before.stopped = TRUE
                 /\ after.stopped = TRUE
                 /\ \A k \in {"lastRequestId", "variables"} :
                      SameField(before, after, k)
                 /\ IF AnswersOlderRequest(Act, before)
                    THEN after = before
                    ELSE /\ after.loading = FALSE
                         /\ after.inFlight = FALSE]_vars

\* The late response was applied: the stopped query is no longer in flight.
C10_Witness ==
  /\ IsCompletion(lastAction)
  /\ requestAtStop[lastAction.queryId] = lastAction.requestId
  /\ hasQuery(queryStore, lastAction.queryId)
  /\ queryStore[lastAction.queryId].stopped = TRUE
  /\ queryStore[lastAction.queryId].lastRequestId = Box(lastAction.requestId)
  /\ queryStore[lastAction.queryId].inFlight = FALSE

\* ------------------------------------------------------------------ C11
\* The query ids listed in an array.
IdsIn(observableQueryIds) ==
  {observableQueryIds[i] : i \in 1..Len(observableQueryIds)}

C12_RequestIdMonotonic ==
  [][\A q \in QueryIds :
       (/\ hasQuery(queryStore, q)
        /\ hasQuery(queryStore', q)
        /\ HasRequestId(queryStore[q]))
         => /\ HasRequestId(queryStore'[q])
            /\ queryStore'[q].lastRequestId[1] >= queryStore[q].lastRequestId[1]]_vars

\* ------------------------------------------------------------------ C13
\* C13 (as stated): a query id becomes a key of the state only by a
\* QUERY_INIT for that id.
C13_CreatedOnlyByInit ==
  [][\A q \in QueryIds :
       (~ hasQuery(queryStore, q) /\ hasQuery(queryStore', q))
         => (Act.type = "QUERY_INIT" /\ Act.queryId = q)]_vars

\* ------------------------------------------------------------------ C15
\* The latest request fired for the query id awaits its response.
LatestRequestOutstanding(q) ==
  /\ lastFired[q] # 0
  /\ [queryId |-> q, requestId |-> lastFired[q]] \in pending

\* C15 (as stated): an entry has inFlight=true exactly when the most recently
\* fired request for its query id has not had its completion dispatched.
C15_InFlightTracksRequests ==
  \A q \in DOMAIN queryStore :
    ("inFlight" \in DOMAIN queryStore[q] /\ queryStore[q].inFlight)
      <=> LatestRequestOutstanding(q)

\* C15 (as stated, "in particular"): inFlight is never false while the latest
\* request still awaits its response: an entry in flight for that request
\* stays in flight over every step that leaves the request outstanding.
C15_InFlightWhileAwaiting ==
  [][\A q \in QueryIds :
       (/\ hasQuery(queryStore, q)
        /\ requestInFlight(queryStore, q) # 0
        /\ requestInFlight(queryStore, q) = lastFired[q]
        /\ lastFired'[q] = lastFired[q]
        /\ [queryId |-> q, requestId |-> lastFired[q]] \in pending'
        /\ hasQuery(queryStore', q))
         => queryStore'[q].inFlight = TRUE]_vars

\* ------------------------------------------------------------------ C19
KeyedActionTypes ==
  {"QUERY_INIT", "FETCH_REQUEST", "QUERY_RESULT", "QUERY_ERROR",
   "QUERY_RESULT_CLIENT", "QUERY_STOP"}

\* C19: an action addressed to one query id leaves the entries of all other
\* query ids as they were; an unrecognised action kind, and a FETCH_REQUEST,
\* QUERY_RESULT, QUERY_ERROR or QUERY_RESULT_CLIENT addressed to a query id
\* without entry, leave the whole state as it was.
C19_Frame ==
  [][/\ Act.type \in KeyedActionTypes
          => \A q \in QueryIds \ {Act.queryId} :
               /\ hasQuery(queryStore', q) <=> hasQuery(queryStore, q)
               /\ hasQuery(queryStore, q) => queryStore'[q] = queryStore[q]
     /\ Act.type \notin KeyedActionTypes \cup {"STORE_RESET"}
          => queryStore' = queryStore
     /\ (/\ Act.type \in KeyedActionTypes \ {"QUERY_INIT", "QUERY_STOP"}
         /\ ~ hasQuery(queryStore, Act.queryId))
          => queryStore' = queryStore]_vars

\* A completion changed one entry while the other query stayed in flight.
C19_Witness ==
  /\ IsCompletion(lastAction)
  /\ DOMAIN queryStore = QueryIds
  /\ HasRequestId(queryStore[lastAction.queryId])
  /\ queryStore[lastAction.queryId].lastRequestId = Box(lastAction.requestId)
  /\ queryStore[lastAction.queryId].inFlight = FALSE
  /\ \E q \in QueryIds \ {lastAction.queryId} :
       /\ "inFlight" \in DOMAIN queryStore[q]
       /\ queryStore[q].inFlight = TRUE

\* ------------------------------------------------------------------ C20
\* The entry carries no previousVariables (undefined or null).
NoPreviousVariables(query) ==
  "previousVariables" \in DOMAIN query => query.previousVariables = Null

\* C20 (as stated): after any applied QUERY_RESULT, QUERY_ERROR or
\* QUERY_RESULT_CLIENT the entry's previousVariables is cleared.
C20_ClearedOnCompletion ==
  [][(/\ Act.type \in {"QUERY_RESULT", "QUERY_ERROR", "QUERY_RESULT_CLIENT"}
      /\ hasQuery(queryStore, Act.queryId)
      /\ IsCompletion(Act) => ~ AnswersOlderRequest(Act, queryStore[Act.queryId]))
       => NoPreviousVariables(queryStore'[Act.queryId])]_vars

\* C20 (as stated, its consequence): a query that is no longer loading never
\* still carries previousVariables.
C20_NotLoadingNoPreviousVariables ==
  \A q \in DOMAIN queryStore :
    queryStore[q].loading = FALSE => NoPreviousVariables(queryStore[q])

\* ------------------------------------------------------------------ C14
\* C14: the reducer is copy-on-write: whatever the action, every object that
\* existed before the step (the previousState map and every entry object) is
\* exactly as it was after the step; changes are made on new objects only.
C14_CopyOnWrite ==
  [][/\ Len(heap') >= Len(heap)
     /\ \A address \in 1..Len(heap) : heap'[address] = heap[address]]_vars

\* The state the heap holds is the state the reducer computes on values.
C14_HeapHoldsState == Deref(heap, stateRef) = queryStore

\* A FETCH_REQUEST produced a new state while an older state object, a
\* reader's snapshot, still shows the query as not in flight.
C14_Witness ==
  /\ lastAction.type = "FETCH_REQUEST"
  /\ hasQuery(queryStore, lastAction.queryId)
  /\ \E snapshot \in 1..Len(heap) :
       /\ snapshot # stateRef
       /\ DOMAIN heap[snapshot] # {}
       /\ DOMAIN heap[snapshot] \subseteq QueryIds
       /\ lastAction.queryId \in DOMAIN heap[snapshot]
       /\ "inFlight" \in DOMAIN heap[heap[snapshot][lastAction.queryId]]
       /\ heap[heap[snapshot][lastAction.queryId]].inFlight = FALSE
       /\ heap[heap[stateRef][lastAction.queryId]].inFlight = TRUE

\* ------------------------------------------------------------------ C17
RECURSIVE Sum(_, _)
Sum(f, S) ==
  IF S = {} THEN 0
  ELSE LET x == CHOOSE y \in S : TRUE
       IN  f[x] + Sum(f, S \ {x})

\* Number of object nodes of a result value that declare the identifier id.
RECURSIVE NodesWithId(_, _)
NodesWithId(value, id) ==
  CASE value.kind = "scalar" -> 0
    [] value.kind = "list" ->
         Sum([i \in DOMAIN value.items |-> NodesWithId(value.items[i], id)],
             DOMAIN value.items)
    [] value.kind = "object" ->
         (IF dataIdFromObject(value) = Box(id) THEN 1 ELSE 0)
         + Sum([k \in DOMAIN value.fields |->
                  NodesWithId(value.fields[k], id)],
               DOMAIN value.fields)

\* No object aliasing: no two object nodes of the result tree share a
\* declared identifier.
NoAliasing(result) ==
  \A v \in ScalarsOf("id") : NodesWithId(Object(result), "id:" \o v) <= 1

\* C17: round trip of the normalized store. When the shape last written is
\* read back and the result written had no object aliasing, the read
\* succeeds, is complete, and returns exactly the result written.
C17_RoundTrip ==
  (readOut # Null /\ written # <<>>) =>
    LET last == written[Len(written)]
        read == readOut[1]
    IN  (read.selection = last.selection /\ NoAliasing(last.result)) =>
          read.outcome = [kind |-> "result", result |-> last.result,
                          isMissing |-> FALSE]

\* Two distinct objects written under one field name with different
\* arguments and aliases, and a list of objects, have been read back.
C17_Witness ==
  /\ readOut # Null
  /\ written # <<>>
  /\ LET last == written[Len(written)]
         read == readOut[1]
     IN  /\ read.selection = PairShape
         /\ last.selection = PairShape
         /\ NoAliasing(last.result)
         /\ last.result["first"].fields["name"]
              # last.result["second"].fields["name"]
         /\ read.outcome.kind = "result"
         /\ read.outcome.result = last.result

\* The round trip without the precondition: two nodes that declare one
\* identifier share a store object, and the last one written wins.
C17_RoundTripOfAnyResult ==
  (readOut # Null /\ written # <<>>) =>
    LET last == written[Len(written)]
        read == readOut[1]
    IN  read.selection = last.selection =>
          (read.outcome.kind = "result"
           /\ read.outcome.result = last.result)

\* ------------------------------------------------------------------ C18
\* The store lacks a field that the selection requests under dataId.
RECURSIVE LacksField(_, _, _)
LacksField(st, dataId, selection) ==
  \E i \in DOMAIN selection :
    LET field    == selection[i]
        fieldKey == storeFieldKey(field.name, field.args)
    IN  \/ dataId \notin DOMAIN st
        \/ fieldKey \notin DOMAIN st[dataId]
        \/ LET stored == st[dataId][fieldKey]
           IN  \/ /\ stored.kind = "id"
                  /\ LacksField(st, stored.id, field.selection)
               \/ /\ stored.kind = "list"
                  /\ \E j \in DOMAIN stored.items :
                       /\ stored.items[j].kind = "id"
                       /\ LacksField(st, stored.items[j].id, field.selection)

\* The result holds every requested field the store has, with the store's
\* value, and leaves every field the store lacks undefined.
RECURSIVE PartialOf(_, _, _, _)
ValueOf(st, stored, field, value) ==
  CASE stored.kind = "scalar" -> value = stored
    [] stored.kind = "id" ->
         /\ value.kind = "object"
         /\ PartialOf(st, stored.id, field.selection, value.fields)
    [] stored.kind = "list" ->
         /\ value.kind = "list"
         /\ Len(value.items) = Len(stored.items)
         /\ \A j \in DOMAIN stored.items :
              IF stored.items[j].kind = "id"
              THEN /\ value.items[j].kind = "object"
                   /\ PartialOf(st, stored.items[j].id, field.selection,
                                value.items[j].fields)
              ELSE value.items[j] = stored.items[j]

PartialOf(st, dataId, selection, result) ==
  \A i \in DOMAIN selection :
    LET field    == selection[i]
        fieldKey == storeFieldKey(field.name, field.args)
    IN  IF dataId \notin DOMAIN st \/ fieldKey \notin DOMAIN st[dataId]
        THEN field.responseName \notin DOMAIN result
        ELSE /\ field.responseName \in DOMAIN result
             /\ ValueOf(st, st[dataId][fieldKey], field,
                        result[field.responseName])

\* C18: a read that requests a field the store lacks fails with
\* MissingFieldError when returnPartialData is false; when it is true the
\* read returns a result marked isMissing in which the missing field is
\* undefined and every field the store has is read.
C18_MissingField ==
  readOut # Null =>
    LET read == readOut[1]
    IN  LacksField(store, RootStoreKey, read.selection) =>
          IF read.returnPartialData
          THEN /\ read.outcome.kind = "result"
               /\ read.outcome.isMissing
               /\ PartialOf(store, RootStoreKey, read.selection,
                            read.outcome.result)
          ELSE read.outcome.kind = "MissingFieldError"

\* {user: {id: "1", name: "Ann"}} was written and {user {id name email}}
\* read with returnPartialData: email is undefined, id and name are read.
C18_Witness ==
  /\ readOut # Null
  /\ written # <<>>
  /\ LET last == written[Len(written)]
         read == readOut[1]
     IN  /\ last.selection = UserShape
         /\ last.result["user"].fields["name"] = Scalar("Ann")
         /\ read.selection = UserEmailShape
         /\ read.returnPartialData
         /\ read.outcome.kind = "result"
         /\ read.outcome.isMissing
         /\ "email" \notin DOMAIN read.outcome.result["user"].fields
         /\ read.outcome.result["user"].fields["name"] = Scalar("Ann")
         /\ read.outcome.result["user"].fields["id"] = Scalar("1")

\* The same read without returnPartialData fails, naming the field path.
C18_WitnessError ==
  /\ readOut # Null
  /\ written # <<>>
  /\ LET last == written[Len(written)]
         read == readOut[1]
     IN  /\ last.selection = UserShape
         /\ last.result["user"].fields["id"] = Scalar("1")
         /\ read.selection = UserEmailShape
         /\ ~read.returnPartialData
         /\ read.outcome = [kind |-> "MissingFieldError",
                            path |-> "id:1.email"]

\* ------------------------------------------------------------------ C21
\* The entry is in flight.
IsInFlight(query) == "inFlight" \in DOMAIN query /\ query.inFlight = TRUE

\* The entry holds the id and the time of a request.
IsStamped(query) ==
  /\ HasRequestId(query)
  /\ "lastRequestTime" \in DOMAIN query
  /\ query.lastRequestTime # Null

\* C21: in every reachable state an entry with inFlight = true holds a
\* lastRequestId and a lastRequestTime, neither null; inFlight only becomes
\* true in a FETCH_REQUEST step that stamps both, and a QUERY_INIT step
\* resets all three together.
C21_InFlightStamped ==
  /\ [](\A q \in DOMAIN queryStore :
          IsInFlight(queryStore[q]) => IsStamped(queryStore[q]))
  /\ [][/\ \A q \in DOMAIN queryStore' :
             (/\ IsInFlight(queryStore'[q])
              /\ ~ (q \in DOMAIN queryStore /\ IsInFlight(queryStore[q])))
             => /\ Act.type = "FETCH_REQUEST"
                /\ Act.queryId = q
                /\ queryStore'[q].lastRequestId = Box(Act.requestId)
                /\ queryStore'[q].lastRequestTime = Box(Act.now)
        /\ Act.type = "QUERY_INIT"
             => /\ queryStore'[Act.queryId].inFlight = FALSE
                /\ queryStore'[Act.queryId].lastRequestId = Null
                /\ queryStore'[Act.queryId].lastRequestTime = Null]_vars

\* A FETCH_REQUEST has put an entry in flight and stamped it.
C21_Witness ==
  /\ lastAction.type = "FETCH_REQUEST"
  /\ hasQuery(queryStore, lastAction.queryId)
  /\ IsInFlight(queryStore[lastAction.queryId])
  /\ queryStore[lastAction.queryId].lastRequestId = Box(lastAction.requestId)
  /\ queryStore[lastAction.queryId].lastRequestTime = Box(lastAction.now)

\* ------------------------------------------------------------------ C22
\* C22 (as stated): no entry is stopped and loading at the same time.
C22_StoppedNeverLoading ==
  \A q \in DOMAIN queryStore :
    ~ (/\ "stopped" \in DOMAIN queryStore[q]
       /\ queryStore[q].stopped = TRUE
       /\ queryStore[q].loading = TRUE)

\* What does hold: only QUERY_RESULT_CLIENT with complete = false makes a
\* stopped entry loading.
C22_OnlyClientResultLoadsStopped ==
  [][\A q \in DOMAIN queryStore' :
       (/\ "stopped" \in DOMAIN queryStore'[q]
        /\ queryStore'[q].stopped = TRUE
        /\ queryStore'[q].loading = TRUE
        /\ ~ (q \in DOMAIN queryStore /\ queryStore[q].loading = TRUE))
       => /\ Act.type = "QUERY_RESULT_CLIENT"
          /\ Act.queryId = q
          /\ Act.complete = FALSE]_vars

\* ------------------------------------------------------------------ C23
\* The entry is stopped.
IsStopped(query) == "stopped" \in DOMAIN query /\ query.stopped = TRUE

\* C23: a stopped entry stays stopped in every step, except that a
\* QUERY_INIT for its query id sets stopped to false and a STORE_RESET may
\* remove the entry.
C23_StoppedSticky ==
  [][\A q \in DOMAIN queryStore :
       IsStopped(queryStore[q])
       => \/ /\ hasQuery(queryStore', q)
             /\ IsStopped(queryStore'[q])
          \/ /\ Act.type = "QUERY_INIT"
             /\ Act.queryId = q
             /\ hasQuery(queryStore', q)
             /\ queryStore'[q].stopped = FALSE
          \/ /\ Act.type = "STORE_RESET"
             /\ ~ hasQuery(queryStore', q)]_vars

\* A FETCH_REQUEST was applied to a stopped entry, which is still stopped.
C23_Witness ==
  /\ lastAction.type = "FETCH_REQUEST"
  /\ hasQuery(queryStore, lastAction.queryId)
  /\ IsStopped(queryStore[lastAction.queryId])
  /\ IsInFlight(queryStore[lastAction.queryId])
  /\ queryStore[lastAction.queryId].lastRequestId = Box(lastAction.requestId)
  /\ requestAtStop[lastAction.queryId] # lastAction.requestId

\* ------------------------------------------------------------------ C24
\* The entry of q, if there is one, is neither in flight nor loading.
Settled(q) ==
  hasQuery(queryStore, q)
    => /\ ~ IsInFlight(queryStore[q])
       /\ queryStore[q].loading = FALSE

\* No further fetch or init is issued for q, and its entry is in flight.
AwaitsLastCompletions(q) ==
  /\ q \in quiet
  /\ hasQuery(queryStore, q)
  /\ IsInFlight(queryStore[q])

\* C24 (as stated): once no further FETCH_REQUEST or QUERY_INIT is issued
\* for a query id and every completion is delivered, the entry eventually
\* reaches and stays at inFlight = false and loading = false.
C24_SettlesForGood ==
  \A q \in QueryIds : AwaitsLastCompletions(q) ~> [](Settled(q))

\* C24 (amended): the entry eventually reaches inFlight = false and
\* loading = false, and inFlight stays false; afterwards only a
\* QUERY_RESULT_CLIENT with complete = false makes the entry loading.
C24_Settles ==
  /\ \A q \in QueryIds : AwaitsLastCompletions(q) ~> Settled(q)
  /\ \A q \in QueryIds :
       AwaitsLastCompletions(q)
         ~> [](hasQuery(queryStore, q) => ~ IsInFlight(queryStore[q]))
  /\ [][\A q \in quiet :
          (/\ hasQuery(queryStore, q)
           /\ hasQuery(queryStore', q)
           /\ queryStore[q].loading = FALSE
           /\ queryStore'[q].loading = TRUE)
          => /\ Act.type = "QUERY_RESULT_CLIENT"
             /\ Act.queryId = q
             /\ Act.complete = FALSE]_vars

\* Two requests were fired for a query, no further one is issued, the
\* completion of the older request arrived last and was discarded, and the
\* entry is settled.
C24_Witness ==
  /\ IsCompletion(lastAction)
  /\ lastAction.queryId \in quiet
  /\ hasQuery(queryStore, lastAction.queryId)
  /\ AnswersOlderRequest(lastAction, queryStore[lastAction.queryId])
  /\ lastFired[lastAction.queryId] = queryStore[lastAction.queryId].lastRequestId[1]
  /\ \A request \in pending : request.queryId # lastAction.queryId
  /\ Settled(lastAction.queryId)

\* ------------------------------------------------------------------ C25
\* The calls of operation() and query() that were handed an operation id.
Registered == {i \in DOMAIN calls : calls[i].opId # Null}

\* C25: every operation id handed out is strictly greater than every id
\* handed out before, the first one is 0, and no id is handed out twice,
\* whether or not the earlier operation was stopped.
C25_OperationIdsUnique ==
  /\ \A i, j \in Registered :
       i < j => calls[i].opId[1] < calls[j].opId[1]
  /\ \A i \in Registered :
       (\A j \in Registered : i <= j) => calls[i].opId[1] = 0

\* An operation was started after the one before it was stopped.
C25_Witness ==
  /\ Len(calls) >= 2
  /\ {1, 2} \subseteq Registered
  /\ calls[1].stopCalls > 0
  /\ calls[2].opId = Box(1)
  /\ DOMAIN client[1].activeOperations = {1}

\* ------------------------------------------------------------------ C26
\* The call's operation has been stopped: the function operation()
\* returned was called, or the listener of query() unsubscribed.
HasStopped(call) ==
  \/ call.stopCalls > 0
  \/ \E k \in DOMAIN call.events : call.events[k] = "unsubscribe"

\* C26: activeOperations holds exactly the operations started and not yet
\* stopped, each with its options; calling the function operation()
\* returned once more changes nothing.
C26_ActiveOperations ==
  /\ [](client # Null =>
          DOMAIN client[1].activeOperations
            = {calls[i].opId[1] :
                 i \in {j \in Registered : ~ HasStopped(calls[j])}})
  /\ [][\A i \in DOMAIN calls :
          (/\ lastCall'.method = "stop"
           /\ calls[i].stopCalls >= 1
           /\ calls'[i].stopCalls = calls[i].stopCalls + 1)
          => client' = client]_vars

\* Of two operations the first was stopped twice; the second is active.
C26_Witness ==
  /\ Len(calls) >= 2
  /\ {1, 2} \subseteq Registered
  /\ calls[1].stopCalls = 2
  /\ calls[2].stopCalls = 0
  /\ calls[2].kind = "operation"
  /\ DOMAIN client[1].activeOperations = {calls[2].opId[1]}

\* ------------------------------------------------------------------ C27
\* C27: for every call of query(): the placeholder is never the function
\* its listener calls, the listener runs only once `unsubscribe` is the
\* function operation() returned, a settled promise has unsubscribed first
\* and its operation is not active, and the listener rejects on an error
\* and resolves otherwise.
C27_QueryOneShot ==
  \A i \in DOMAIN calls :
    calls[i].kind = "query" =>
      /\ \A k \in DOMAIN calls[i].events :
           calls[i].events[k] # "No operation registered!"
      /\ calls[i].timer = "fired" => calls[i].unsubscribe = "real"
      /\ (calls[i].promise # "pending" /\ calls[i].opId # Null)
           => /\ Len(calls[i].events) = 2
              /\ calls[i].events[1] = "unsubscribe"
              /\ calls[i].events[2]
                   = (IF calls[i].promise = "rejected" THEN "reject"
                                                       ELSE "resolve")
              /\ calls[i].opId[1] \notin DOMAIN client[1].activeOperations
      /\ (calls[i].promise = "rejected" /\ calls[i].opId = Null)
           => calls[i].events = <<>>
      /\ (calls[i].timer = "pending" /\ calls[i].pc = "done")
           => \A err \in ListenerErrors :
                queryListener(client[1], calls[i], err,
                              OperationResult).call.promise
                  = (IF err # Null THEN "rejected" ELSE "resolved")

\* A query has resolved while another operation is still active.
C27_Witness ==
  \E i \in DOMAIN calls :
    /\ calls[i].kind = "query"
    /\ calls[i].promise = "resolved"
    /\ calls[i].events = <<"unsubscribe", "resolve">>
    /\ calls[i].opId # Null
    /\ calls[i].opId[1] \notin DOMAIN client[1].activeOperations
    /\ client[1].activeOperations # EmptyObject

\* ------------------------------------------------------------------ C28
\* C28: initStore leaves a client that has a store as it is; without a
\* store and with a selector function it throws and the store stays unset;
\* setStore throws and keeps the current store when the selected state of
\* the offered store is undefined; operation() and query() whose initStore
\* throws register nothing and take no operation id.
C28_InitStoreFailsSafe ==
  [][client # Null =>
       /\ (lastCall'.method = "initStore" /\ client[1].store # Null)
            => /\ ~ lastCall'.threw
               /\ client' = client
               /\ stores' = stores
       /\ (/\ lastCall'.method = "initStore"
           /\ client[1].store = Null
           /\ client[1].reduxRootSelector # Null)
            => /\ lastCall'.threw
               /\ client'[1].store = Null
       /\ (/\ lastCall'.method = "setStore"
           /\ selectsUndefined(client[1], stores[lastCall'.store].state))
            => /\ lastCall'.threw
               /\ client' = client
       /\ (lastCall'.method \in {"operation", "query"} /\ lastCall'.threw)
            => /\ client' = client
               /\ calls'[Len(calls')].opId = Null
       /\ (/\ lastCall'.method \in {"operation", "query"}
           /\ client[1].store = Null
           /\ client[1].reduxRootSelector # Null)
            => lastCall'.threw]_vars

\* initStore was called on a client that was given a selector function
\* and has taken a store through its middleware.
C28_Witness ==
  /\ lastCall.method = "initStore"
  /\ ~ lastCall.threw
  /\ client # Null
  /\ client[1].reduxRootSelector # Null
  /\ client[1].store = Box("custom")

\* operation() threw in initStore: nothing is registered.
C28_WitnessThrows ==
  /\ lastCall.method = "operation"
  /\ lastCall.threw
  /\ client[1].idCounter = 0
  /\ client[1].activeOperations = EmptyObject
  /\ client[1].store = Null

\* ------------------------------------------------------------------ C29
\* C29: for the action last given to the middleware, the action was passed
\* to next first, broadcastToQueryListeners then ran exactly once with the
\* state the store has after the action, and the middleware returned what
\* next returned.
C29_BroadcastAfterUpdate ==
  middlewareLog # <<>> =>
    LET log == middlewareLog[1]
    IN  /\ Len(log.events) = 2
        /\ log.events[1].event = "next"
        /\ log.events[2].event = "broadcast"
        /\ log.events[2].state
             = [log.before EXCEPT
                  ![log.key].queries = queries(@, log.action)]
        /\ log.events[2].state = stores[log.store].state
        /\ log.returned = log.nextReturned

\* An action that changed the state went through the middleware while an
\* operation was active, and next returned something else than the action.
C29_Witness ==
  /\ middlewareLog # <<>>
  /\ lastCall.method = "dispatch"
  /\ middlewareLog[1].before # stores[middlewareLog[1].store].state
  /\ middlewareLog[1].events[2].opIds # {}
  /\ middlewareLog[1].returned = "promise"

====
